---- MODULE Spec2Model ----
(***************************************************************************)
(* rusql-alchemy: the query builders and the value binder of the Model     *)
(* trait (src/src/lib.rs), driven as in src/src/main.rs.                   *)
(*                                                                         *)
(* A text (a Rust String, a SQL statement, a column name) is a sequence of *)
(* atoms.  An atom is a piece of text that no operation of the program     *)
(* looks inside: a character such as "_" or the double quote, or a whole   *)
(* word such as "owner" or "insert into ".  Concatenation is \o.           *)
(***************************************************************************)
EXTENDS Integers, Sequences, FiniteSets, TLC

\* Bounds of the model.
MaxArgs == 2
MaxRows == 2

-----------------------------------------------------------------------------
(* Text helpers: what format!, join, replace and split do.                 *)

QUOTE == "\""
BACKSLASH == "\\"
MARKER == "_"

Digits == <<"0", "1", "2", "3", "4", "5", "6", "7", "8", "9">>

IsDigit(c) == \E d \in 1..10 : Digits[d] = c

DigitVal(c) == (CHOOSE d \in 1..10 : Digits[d] = c) - 1

AllDigits(t) == Len(t) > 0 /\ \A i \in 1..Len(t) : IsDigit(t[i])

RECURSIVE NatToText(_)
NatToText(n) ==
    IF n < 10 THEN <<Digits[n + 1]>>
    ELSE NatToText(n \div 10) \o <<Digits[(n % 10) + 1]>>

\* Display of an integer: i + 1 in format!, i32::to_string, a JSON integer.
IntToText(n) == IF n < 0 THEN <<"-">> \o NatToText(-n) ELSE NatToText(n)

RECURSIVE DigitsValue(_)
DigitsValue(t) ==
    IF Len(t) = 0 THEN 0
    ELSE DigitsValue(SubSeq(t, 1, Len(t) - 1)) * 10 + DigitVal(t[Len(t)])

\* Vec<String>::join(sep)
RECURSIVE JoinText(_, _)
JoinText(parts, sep) ==
    IF Len(parts) = 0 THEN <<>>
    ELSE IF Len(parts) = 1 THEN parts[1]
    ELSE parts[1] \o sep \o JoinText(Tail(parts), sep)

\* v.replace('"', "")
StripQuotes(t) == SelectSeq(t, LAMBDA c : c # QUOTE)

\* Mutant of Split: every single "_" separates.
SplitOnUnderscore(t) ==
    LET pos == <<0>> \o SelectSeq([i \in 1..Len(t) |-> i], LAMBDA i : t[i] = MARKER)
               \o <<Len(t) + 1>>
    IN  [k \in 1..(Len(pos) - 1) |-> SubSeq(t, pos[k] + 1, pos[k + 1] - 1)]

\* str::split("__"): the matches are found left to right and do not overlap;
\* cur is the segment being read, parts the segments already closed.
RECURSIVE SplitFrom(_, _, _, _)
SplitFrom(t, i, cur, parts) ==
    IF i > Len(t) THEN Append(parts, cur)
    ELSE IF i < Len(t) /\ t[i] = MARKER /\ t[i + 1] = MARKER
         THEN SplitFrom(t, i + 2, <<>>, Append(parts, cur))
         ELSE SplitFrom(t, i + 1, Append(cur, t[i]), parts)

Split(t) == SplitFrom(t, 1, <<>>, <<>>)

-----------------------------------------------------------------------------
(* Values.  A Rust value handed to kwargs! is [rt, n, s]: rt is its        *)
(* type_name, n its integer (i32), its truth value 1/0 (bool) or its       *)
(* integer part (f64), s its text (&str, String) or its fraction digits    *)
(* (f64; <<"NaN">> for a non-finite float).                                *)

I32(n) == [rt |-> "i32", n |-> n, s |-> <<>>]
F64(n, frac) == [rt |-> "f64", n |-> n, s |-> frac]
Bool(b) == [rt |-> "bool", n |-> IF b THEN 1 ELSE 0, s |-> <<>>]
Str(t) == [rt |-> "&str", n |-> 0, s |-> t]

\* serde_json::Value
Json(jt, n, s) == [jt |-> jt, n |-> n, s |-> s]

\* impl Into<serde_json::Value>: a non-finite f64 becomes Null
Into(v) ==
    CASE v.rt = "i32" -> Json("Int", v.n, <<>>)
      [] v.rt = "f64" -> IF v.s = <<>> \/ AllDigits(v.s)
                         THEN Json("Float", v.n, v.s)
                         ELSE Json("Null", 0, <<>>)
      [] v.rt = "bool" -> Json("Bool", v.n, <<>>)
      [] OTHER -> Json("String", 0, v.s)

to_value(v) ==
    LET json_value == Into(v)
    IN  IF json_value.jt = "Bool" /\ json_value.n = 1 THEN Json("Int", 1, <<>>)
        ELSE IF json_value.jt = "Bool" THEN Json("Int", 0, <<>>)
        ELSE json_value

get_type_name(v) == v.rt

\* The escapes serde_json writes inside a string.
RECURSIVE Escape(_)
Escape(t) ==
    IF Len(t) = 0 THEN <<>>
    ELSE (IF t[1] = QUOTE THEN <<BACKSLASH, QUOTE>>
          ELSE IF t[1] = BACKSLASH THEN <<BACKSLASH, BACKSLASH>>
          ELSE <<t[1]>>) \o Escape(Tail(t))

\* serde_json::Value::to_string: the compact JSON text of the value.
ValueToString(j) ==
    CASE j.jt = "Null" -> <<"null">>
      [] j.jt = "Bool" -> IF j.n = 1 THEN <<"true">> ELSE <<"false">>
      [] j.jt = "Int" -> IntToText(j.n)
      [] j.jt = "Float" ->
            IntToText(j.n) \o <<".">> \o (IF j.s = <<>> THEN <<"0">> ELSE j.s)
      [] OTHER -> <<QUOTE>> \o Escape(j.s) \o <<QUOTE>>

\* The range of i32.
I32_MAX == 2147483647
I32_MIN == 0 - I32_MAX - 1

\* str::parse::<i32>: an optional sign, then digits, within the i32 range.
ParseI32(t) ==
    LET signed == Len(t) > 0 /\ t[1] \in {"-", "+"}
        body == IF signed THEN Tail(t) ELSE t
        v == IF ~AllDigits(body) THEN 0
             ELSE IF signed /\ t[1] = "-" THEN 0 - DigitsValue(body)
             ELSE DigitsValue(body)
    IN  IF AllDigits(body) /\ v >= I32_MIN /\ v <= I32_MAX
        THEN [ok |-> TRUE, n |-> v]
        ELSE [ok |-> FALSE, n |-> 0]

RECURSIVE StripZeros(_)
StripZeros(t) ==
    IF Len(t) > 0 /\ t[Len(t)] = "0" THEN StripZeros(SubSeq(t, 1, Len(t) - 1))
    ELSE t

\* str::parse::<f64> on decimal literals: an optional sign, digits, an
\* optional point and digits.  The result is the integer part and the
\* significant fraction digits.
ParseF64(t) ==
    LET signed == Len(t) > 0 /\ t[1] \in {"-", "+"}
        body == IF signed THEN Tail(t) ELSE t
        dots == {i \in 1..Len(body) : body[i] = "."}
        d == IF dots = {} THEN Len(body) + 1 ELSE CHOOSE i \in dots : TRUE
        ip == SubSeq(body, 1, d - 1)
        fp == SubSeq(body, d + 1, Len(body))
        ok == /\ Cardinality(dots) <= 1
              /\ Len(ip) + Len(fp) > 0
              /\ \A i \in 1..Len(ip) : IsDigit(ip[i])
              /\ \A i \in 1..Len(fp) : IsDigit(fp[i])
    IN  IF ok
        THEN [ok |-> TRUE,
              n |-> IF signed /\ t[1] = "-" THEN 0 - DigitsValue(ip)
                    ELSE DigitsValue(ip),
              s |-> StripZeros(fp)]
        ELSE [ok |-> FALSE, n |-> 0, s |-> <<>>]

-----------------------------------------------------------------------------
(* Arg, Kwargs, Operator.                                                  *)

Arg(key, value, type) == [key |-> key, value |-> value, type |-> type]

\* kwargs!(k1 = v1, ...): items is the sequence of [key, v] it is given.
KwargsMacro(items) ==
    [operator |-> "And",
     args |-> [i \in 1..Len(items) |->
                  Arg(items[i].key, to_value(items[i].v),
                      get_type_name(items[i].v))]]

\* Mutant of OperatorGet: both operators give " and ".
OperatorGetAnd(operator) == <<" and ">>

\* Operator::get
OperatorGet(operator) == IF operator = "Or" THEN <<" or ">> ELSE <<" and ">>

\* Kwargs::or
KwargsOr(kw) == [operator |-> "Or", args |-> kw.args]

\* The PLACEHOLDER constant of the feature the crate is built with.
PLACEHOLDER(feature) == IF feature = "postgres" THEN "$" ELSE "?"

\* Mutant of PlaceholderAt: the index is the 0-based i.
PlaceholderAtZeroBased(feature, k) == <<PLACEHOLDER(feature)>> \o IntToText(k - 1)

\* format!("{PLACEHOLDER}{}", i + 1) at 0-based index i = k - 1
PlaceholderAt(feature, k) == <<PLACEHOLDER(feature)>> \o IntToText(k)

\* values.push((arg.r#type.clone(), arg.value.to_string()))
ValueOf(arg) == [t |-> arg.type, v |-> ValueToString(arg.value)]

-----------------------------------------------------------------------------
(* The binder: the match on the type tag in set, create and filter.  A     *)
(* bound parameter is [bt, n, s]: an i32 n, an f64 with integer part n and *)
(* fraction digits s, or the text s.                                       *)

BindParam(t, v) ==
    CASE t = "i32" ->
            LET r == ParseI32(StripQuotes(v))
            IN  [ok |-> r.ok, p |-> [bt |-> "i32", n |-> r.n, s |-> <<>>]]
      [] t = "f64" ->
            LET r == ParseF64(StripQuotes(v))
            IN  [ok |-> r.ok, p |-> [bt |-> "f64", n |-> r.n, s |-> r.s]]
      [] OTHER ->
            [ok |-> TRUE, p |-> [bt |-> "text", n |-> 0, s |-> StripQuotes(v)]]

\* for (t, v) in values { stream = stream.bind(...unwrap()) }: the loop stops
\* at the first value whose parse fails, where unwrap panics.
RECURSIVE BindLoop(_, _, _)
BindLoop(values, i, binds) ==
    IF i > Len(values) THEN [panicked |-> FALSE, binds |-> binds]
    ELSE LET b == BindParam(values[i].t, values[i].v)
         IN  IF b.ok THEN BindLoop(values, i + 1, Append(binds, b.p))
             ELSE [panicked |-> TRUE, binds |-> binds]

BindAll(values) == BindLoop(values, 1, <<>>)

-----------------------------------------------------------------------------
(* The statements.  A statement is its SQL text (query), the (type, text)  *)
(* pairs to bind (values), and what the text names, for the backend:       *)
(* cols, the columns in placeholder order, each [tbl, col] with tbl = <<>>  *)
(* for an unqualified column, and join, the joined tables [tbl, col].      *)

Col(tbl, col) == [tbl |-> tbl, col |-> col]

\* Model::create, the statement it builds
CreateStatement(feature, name, kw) ==
    LET N == Len(kw.args)
        fields == [i \in 1..N |-> kw.args[i].key]
        values == [i \in 1..N |-> ValueOf(kw.args[i])]
        placeholder == [i \in 1..N |-> PlaceholderAt(feature, i)]
    IN  [query |-> <<"insert into ">> \o name \o <<" (">>
                   \o JoinText(fields, <<", ">>) \o <<") values (">>
                   \o JoinText(placeholder, <<", ">>) \o <<");">>,
         values |-> values,
         cols |-> [i \in 1..N |-> Col(<<>>, kw.args[i].key)],
         join |-> <<>>]

\* T::to_string of the id value handed to set
Display(v) == IF v.rt = "i32" THEN IntToText(v.n) ELSE v.s

\* Model::set, the statement it builds
SetStatement(feature, name, pk, id_value, kw) ==
    LET N == Len(kw.args)
        fields == [i \in 1..N |->
                      kw.args[i].key \o <<"=">> \o PlaceholderAt(feature, i)]
        values == [i \in 1..N |-> ValueOf(kw.args[i])]
                  \o <<[t |-> get_type_name(id_value), v |-> Display(id_value)]>>
        j == Len(fields) + 1
    IN  [query |-> <<"update ">> \o name \o <<" set ">>
                   \o JoinText(fields, <<", ">>) \o <<" where ">> \o pk
                   \o <<"=">> \o PlaceholderAt(feature, j) \o <<";">>,
         values |-> values,
         cols |-> [i \in 1..N |-> Col(<<>>, kw.args[i].key)] \o <<Col(<<>>, pk)>>,
         join |-> <<>>]

\* "INNER JOIN {table} ON {name}.{pk} = {table}.{field_a}"
JoinClause(name, pk, table, field_a) ==
    <<"INNER JOIN ">> \o table \o <<" ON ">> \o name \o <<".">> \o pk
    \o <<" = ">> \o table \o <<".">> \o field_a

\* The loop of Model::filter over kw.args: acc holds fields, values, cols and
\* join_query (an Option: a sequence of at most one join).
RECURSIVE FilterLoop(_, _, _, _, _, _)
FilterLoop(feature, name, pk, kw, i, acc) ==
    IF i > Len(kw.args) THEN acc
    ELSE LET arg == kw.args[i]
             parts == Split(arg.key)
             values == Append(acc.values, ValueOf(arg))
         IN  IF Len(parts) = 3
             THEN FilterLoop(feature, name, pk, kw, i + 1,
                    [fields |-> Append(acc.fields,
                                  parts[2] \o <<".">> \o parts[3] \o <<"=">>
                                  \o PlaceholderAt(feature, i)),
                     values |-> values,
                     cols |-> Append(acc.cols, Col(parts[2], parts[3])),
                     join_query |-> <<[tbl |-> parts[2], col |-> parts[1],
                                      text |-> JoinClause(name, pk, parts[2],
                                                          parts[1])]>>])
             ELSE FilterLoop(feature, name, pk, kw, i + 1,
                    [fields |-> Append(acc.fields,
                                  arg.key \o <<"=">> \o PlaceholderAt(feature, i)),
                     values |-> values,
                     cols |-> Append(acc.cols, Col(<<>>, arg.key)),
                     join_query |-> acc.join_query])

\* Model::filter, the statement it builds
FilterStatement(feature, name, pk, kw) ==
    LET acc == FilterLoop(feature, name, pk, kw, 1,
                 [fields |-> <<>>, values |-> <<>>, cols |-> <<>>,
                  join_query |-> <<>>])
        fields == JoinText(acc.fields, OperatorGet(kw.operator))
    IN  [query |-> IF acc.join_query # <<>>
                   THEN <<"SELECT ">> \o name \o <<".* FROM ">> \o name \o <<" ">>
                        \o acc.join_query[1].text \o <<" WHERE ">> \o fields
                        \o <<";">>
                   ELSE <<"SELECT * FROM ">> \o name \o <<" WHERE ">> \o fields
                        \o <<";">>,
         values |-> acc.values,
         cols |-> acc.cols,
         join |-> [k \in 1..Len(acc.join_query) |->
                      Col(acc.join_query[k].tbl, acc.join_query[k].col)]]

-----------------------------------------------------------------------------
(* The entities of src/src/main.rs and the backend behind the Connection.  *)
(* A table is the sequence of its rows in insertion order; a row maps each *)
(* column to a cell, a bound parameter or NULL.  Cells keep the type they  *)
(* were bound with.                                                        *)

User == [NAME |-> <<"user">>, PK |-> <<"id">>]
Product == [NAME |-> <<"product">>, PK |-> <<"id">>]
Entities == {User, Product}
TableNames == {T.NAME : T \in Entities}

NULL == [bt |-> "null", n |-> 0, s |-> <<>>]
IntCell(n) == [bt |-> "i32", n |-> n, s |-> <<>>]
TextCell(t) == [bt |-> "text", n |-> 0, s |-> t]

Columns(name) ==
    IF name = User.NAME
    THEN {<<"id">>, <<"name">>, <<"email">>, <<"password">>, <<"role">>}
    ELSE {<<"id">>, <<"name">>, <<"price">>, <<"description">>, <<"at">>,
          <<"is", "_", "sel">>, <<"owner">>}

\* #[model(unique = true)], and the primary key
UniqueColumns(name) ==
    IF name = User.NAME THEN {<<"id">>, <<"name">>, <<"email">>} ELSE {<<"id">>}

\* #[model(null = false)] on a column the backend does not fill itself
NotNullColumns(name) ==
    IF name = User.NAME THEN {<<"name">>, <<"password">>}
    ELSE {<<"name">>, <<"owner">>}

\* #[model(default = ...)]
DefaultCell(name, col) ==
    IF name = User.NAME /\ col = <<"role">> THEN TextCell(<<"user">>)
    ELSE IF name = Product.NAME /\ col = <<"at">> THEN TextCell(<<"now">>)
    ELSE IF name = Product.NAME /\ col = <<"is", "_", "sel">> THEN IntCell(1)
    ELSE NULL

PrimaryKey(name) == (CHOOSE T \in Entities : T.NAME = name).PK

\* No two rows agree on a unique column (NULLs apart).
UniqueHolds(name, rows) ==
    \A u \in UniqueColumns(name) : \A i, j \in 1..Len(rows) :
        (i # j /\ rows[i][u] # NULL) => rows[i][u] # rows[j][u]

\* The statement names only columns of the table, each once.
PlainColumns(name, cols) ==
    /\ name \in TableNames
    /\ Len(cols) > 0
    /\ \A i \in 1..Len(cols) : cols[i].tbl = <<>> /\ cols[i].col \in Columns(name)
    /\ \A i, j \in 1..Len(cols) : i # j => cols[i].col # cols[j].col

\* stream.execute(conn) of an insert: [ok, db]
ExecInsert(c, d, name, cols, binds) ==
    LET rows == d[name]
        at(col) == CHOOSE i \in 1..Len(cols) : cols[i].col = col
        row == [col \in Columns(name) |->
                  IF \E i \in 1..Len(cols) : cols[i].col = col THEN binds[at(col)]
                  ELSE IF col = PrimaryKey(name) THEN IntCell(Len(rows) + 1)
                  ELSE DefaultCell(name, col)]
    IN  IF c /\ PlainColumns(name, cols) /\ Len(binds) = Len(cols)
           /\ \A col \in NotNullColumns(name) : row[col] # NULL
           /\ UniqueHolds(name, Append(rows, row))
        THEN [ok |-> TRUE, db |-> [d EXCEPT ![name] = Append(rows, row)]]
        ELSE [ok |-> FALSE, db |-> d]

\* stream.execute(conn) of an update by primary key: [ok, db]
ExecUpdate(c, d, name, cols, binds) ==
    LET N == Len(cols) - 1
        set == SubSeq(cols, 1, N)
        at(col) == CHOOSE i \in 1..N : cols[i].col = col
        new(r) == [col \in Columns(name) |->
                     IF \E i \in 1..N : cols[i].col = col THEN binds[at(col)]
                     ELSE r[col]]
        rows == [i \in 1..Len(d[name]) |->
                   IF d[name][i][cols[N + 1].col] = binds[N + 1]
                   THEN new(d[name][i]) ELSE d[name][i]]
    IN  IF c /\ N >= 1 /\ PlainColumns(name, set) /\ Len(binds) = Len(cols)
           /\ cols[N + 1].col \in Columns(name) /\ UniqueHolds(name, rows)
        THEN [ok |-> TRUE, db |-> [d EXCEPT ![name] = rows]]
        ELSE [ok |-> FALSE, db |-> d]

\* The table a column reference of a select resolves to: <<>> when it
\* resolves to none or to more than one.
Resolve(name, join, ref) ==
    LET tables == {name} \cup {join[k].tbl : k \in 1..Len(join)}
        hits == {t \in tables : (ref.tbl = <<>> \/ ref.tbl = t)
                                /\ ref.col \in Columns(t)}
    IN  IF ref.tbl # <<>> /\ ref.tbl \notin tables THEN <<>>
        ELSE IF Cardinality(hits) = 1 THEN CHOOSE t \in hits : TRUE
        ELSE <<>>

\* stream.fetch_all(conn) of the select built by filter: [ok, rows].  With a
\* join the rows are those of the pairs (row, joined row) that satisfy ON
\* and WHERE, in table order.
FetchFilter(c, d, name, operator, cols, join, binds) ==
    LET joined == Len(join) = 1
        other == IF joined THEN join[1].tbl ELSE name
        valid == /\ c
                 /\ name \in TableNames
                 /\ Len(cols) > 0
                 /\ Len(binds) = Len(cols)
                 /\ joined => /\ other \in TableNames
                              /\ other # name
                              /\ join[1].col \in Columns(other)
                 /\ \A i \in 1..Len(cols) : Resolve(name, join, cols[i]) # <<>>
        m == IF joined THEN Len(d[other]) ELSE 1
        pair(k) == [r |-> d[name][((k - 1) \div m) + 1],
                    o |-> IF joined THEN d[other][((k - 1) % m) + 1]
                          ELSE d[name][((k - 1) \div m) + 1]]
        cell(q, i) == IF Resolve(name, join, cols[i]) = name
                      THEN q.r[cols[i].col] ELSE q.o[cols[i].col]
        holds(q) ==
            /\ joined => q.r[PrimaryKey(name)] = q.o[join[1].col]
            /\ IF operator = "Or"
               THEN \E i \in 1..Len(cols) : cell(q, i) = binds[i]
               ELSE \A i \in 1..Len(cols) : cell(q, i) = binds[i]
        pairs == [k \in 1..(Len(d[name]) * m) |-> pair(k)]
        found == SelectSeq(pairs, holds)
    IN  IF valid THEN [ok |-> TRUE, rows |-> [k \in 1..Len(found) |-> found[k].r]]
        ELSE [ok |-> FALSE, rows |-> <<>>]

\* fetch_all(conn) of "select * from {name}": [ok, rows]
FetchAll(c, d, name) ==
    IF c /\ name \in TableNames THEN [ok |-> TRUE, rows |-> d[name]]
    ELSE [ok |-> FALSE, rows |-> <<>>]

\* fetch_one(conn) of "select count(*) from {name}": [ok, n]
FetchCount(c, d, name) ==
    IF c /\ name \in TableNames THEN [ok |-> TRUE, n |-> Len(d[name])]
    ELSE [ok |-> FALSE, n |-> 0]

\* Mutant of ExecDelete: every table is emptied.
ExecDeleteEveryTable(c, d, name) ==
    IF c /\ name \in TableNames
    THEN [ok |-> TRUE, db |-> [t \in TableNames |-> <<>>]]
    ELSE [ok |-> FALSE, db |-> d]

\* execute(conn) of "delete from {name}": [ok, db]
ExecDelete(c, d, name) ==
    IF c /\ name \in TableNames THEN [ok |-> TRUE, db |-> [d EXCEPT ![name] = <<>>]]
    ELSE [ok |-> FALSE, db |-> d]

-----------------------------------------------------------------------------
(* The state.                                                              *)
(*   feature    the cargo feature the crate is built with                  *)
(*   connected  whether the backend behind the Connection answers          *)
(*   db         the tables                                                 *)
(*   kw         the Kwargs the caller holds, <<>> once moved into a call   *)
(*   res        the last call: the statement it built, what it bound, and  *)
(*              what it returned to the caller (ret: the bool, rows: the   *)
(*              Vec, opt: the Option, n: the count; for delete n is the    *)
(*              length of the collection; id: the id value given to set)   *)

VARIABLES feature, connected, db, kw, res

vars == <<feature, connected, db, kw, res>>

Features == {"postgres", "mysql", "sqlite"}

NoStatement == [query |-> <<>>, values |-> <<>>, cols |-> <<>>, join |-> <<>>]

NoResult ==
    [op |-> "none", table |-> <<>>, kw |-> <<>>, query |-> <<>>, values |-> <<>>,
     binds |-> <<>>, sent |-> FALSE, err |-> FALSE, outcome |-> "none",
     ret |-> FALSE, rows |-> <<>>, opt |-> <<>>, n |-> 0, id |-> <<>>]

\* A call's record: sent says the statement reached the backend, err that
\* the backend answered Err, outcome whether the call returned or panicked.
Result(op, T, k, st, binds, sent, err, outcome) ==
    [NoResult EXCEPT !.op = op, !.table = T.NAME, !.kw = k, !.query = st.query,
                     !.values = st.values, !.binds = binds, !.sent = sent,
                     !.err = err, !.outcome = outcome]

\* Model::create: [db, res]
CreateResult(f, c, d, T, k) ==
    LET st == CreateStatement(f, T.NAME, k)
        b == BindAll(st.values)
        ex == ExecInsert(c, d, T.NAME, st.cols, b.binds)
    IN  IF b.panicked
        THEN [db |-> d,
              res |-> Result("create", T, <<k>>, st, b.binds, FALSE, FALSE,
                             "panicked")]
        ELSE [db |-> ex.db,
              res |-> [Result("create", T, <<k>>, st, b.binds, TRUE, ~ex.ok,
                              "returned") EXCEPT !.ret = ex.ok]]

\* Model::set: [db, res]
SetResult(f, c, d, T, id_value, k) ==
    LET st == SetStatement(f, T.NAME, T.PK, id_value, k)
        b == BindAll(st.values)
        ex == ExecUpdate(c, d, T.NAME, st.cols, b.binds)
    IN  IF b.panicked
        THEN [db |-> d,
              res |-> [Result("set", T, <<k>>, st, b.binds, FALSE, FALSE,
                              "panicked") EXCEPT !.id = <<id_value>>]]
        ELSE [db |-> ex.db,
              res |-> [Result("set", T, <<k>>, st, b.binds, TRUE, ~ex.ok,
                              "returned")
                          EXCEPT !.ret = ex.ok, !.id = <<id_value>>]]

\* Mutant of FilterResult: fetch_all(conn).await.unwrap()
FilterResultUnwrap(f, c, d, T, k) ==
    LET st == FilterStatement(f, T.NAME, T.PK, k)
        b == BindAll(st.values)
        ex == FetchFilter(c, d, T.NAME, k.operator, st.cols, st.join, b.binds)
    IN  IF b.panicked \/ ~ex.ok
        THEN Result("filter", T, <<k>>, st, b.binds, ~b.panicked, ~b.panicked,
                    "panicked")
        ELSE [Result("filter", T, <<k>>, st, b.binds, TRUE, FALSE, "returned")
                 EXCEPT !.rows = ex.rows]

\* Model::filter: res, with the Vec it returns in rows
FilterResult(f, c, d, T, k) ==
    LET st == FilterStatement(f, T.NAME, T.PK, k)
        b == BindAll(st.values)
        ex == FetchFilter(c, d, T.NAME, k.operator, st.cols, st.join, b.binds)
    IN  IF b.panicked
        THEN Result("filter", T, <<k>>, st, b.binds, FALSE, FALSE, "panicked")
        ELSE [Result("filter", T, <<k>>, st, b.binds, TRUE, ~ex.ok, "returned")
                 EXCEPT !.rows = IF ex.ok THEN ex.rows ELSE <<>>]

\* result.first() in Model::get
First(result) == IF Len(result) > 0 THEN <<result[1]>> ELSE <<>>

\* Model::get: res, with filter's Vec in rows and the Option it returns in opt
GetResult(f, c, d, T, k) ==
    LET result == FilterResult(f, c, d, T, k)
    IN  [result EXCEPT !.op = "get", !.opt = First(result.rows)]

\* Model::all
AllResult(c, d, T) ==
    LET ex == FetchAll(c, d, T.NAME)
        st == [NoStatement EXCEPT !.query = <<"select * from ">> \o T.NAME]
    IN  [Result("all", T, <<>>, st, <<>>, TRUE, ~ex.ok, "returned")
            EXCEPT !.rows = IF ex.ok THEN ex.rows ELSE <<>>]

\* Model::count
CountResult(c, d, T) ==
    LET ex == FetchCount(c, d, T.NAME)
        st == [NoStatement EXCEPT !.query = <<"select count(*) from ">> \o T.NAME]
    IN  [Result("count", T, <<>>, st, <<>>, TRUE, ~ex.ok, "returned")
            EXCEPT !.n = IF ex.ok THEN ex.n ELSE 0]

\* <Vec<T> as Delete>::delete on the collection coll: [db, res]
DeleteResult(c, d, T, coll) ==
    LET ex == ExecDelete(c, d, T.NAME)
        st == [NoStatement EXCEPT !.query = <<"delete from ">> \o T.NAME]
    IN  [db |-> ex.db,
         res |-> [Result("delete", T, <<>>, st, <<>>, TRUE, ~ex.ok, "returned")
                     EXCEPT !.ret = ex.ok, !.n = Len(coll)]]

TotalRows(d) == Len(d[User.NAME]) + Len(d[Product.NAME])

-----------------------------------------------------------------------------
(* The actions.                                                            *)

\* The caller is done with what the last call returned.
Drop ==
    /\ kw = <<>>
    /\ res # NoResult
    /\ res' = NoResult
    /\ UNCHANGED <<feature, connected, db, kw>>

\* let kw = kwargs!(...)
MacroCall(itemSeqs) ==
    /\ kw = <<>>
    /\ res = NoResult
    /\ \E items \in itemSeqs : kw' = <<KwargsMacro(items)>>
    /\ UNCHANGED <<feature, connected, db, res>>

\* let kw = Kwargs { operator, args: vec![Arg { key, value, r#type }] }
StructCall(kwargsSet) ==
    /\ kw = <<>>
    /\ res = NoResult
    /\ \E k \in kwargsSet : kw' = <<k>>
    /\ UNCHANGED <<feature, connected, db, res>>

\* kw.or()
OrCall ==
    /\ kw # <<>>
    /\ kw' = <<KwargsOr(kw[1])>>
    /\ UNCHANGED <<feature, connected, db, res>>

Create(T) ==
    /\ kw # <<>>
    /\ TotalRows(db) < MaxRows
    /\ LET r == CreateResult(feature, connected, db, T, kw[1])
       IN  db' = r.db /\ res' = r.res
    /\ kw' = <<>>
    /\ UNCHANGED <<feature, connected>>

Set(T, id_value) ==
    /\ kw # <<>>
    /\ LET r == SetResult(feature, connected, db, T, id_value, kw[1])
       IN  db' = r.db /\ res' = r.res
    /\ kw' = <<>>
    /\ UNCHANGED <<feature, connected>>

Filter(T) ==
    /\ kw # <<>>
    /\ res' = FilterResult(feature, connected, db, T, kw[1])
    /\ kw' = <<>>
    /\ UNCHANGED <<feature, connected, db>>

Get(T) ==
    /\ kw # <<>>
    /\ res' = GetResult(feature, connected, db, T, kw[1])
    /\ kw' = <<>>
    /\ UNCHANGED <<feature, connected, db>>

All(T) ==
    /\ kw = <<>>
    /\ res' = AllResult(connected, db, T)
    /\ UNCHANGED <<feature, connected, db, kw>>

Count(T) ==
    /\ kw = <<>>
    /\ res' = CountResult(connected, db, T)
    /\ UNCHANGED <<feature, connected, db, kw>>

\* products.delete(&conn): the collection is any Vec<T> the caller holds
DeleteVec(T) ==
    /\ kw = <<>>
    /\ \E coll \in {<<>>, db[T.NAME], First(db[T.NAME])} :
          LET r == DeleteResult(connected, db, T, coll)
          IN  db' = r.db /\ res' = r.res
    /\ UNCHANGED <<feature, connected, kw>>

\* The backend becomes unavailable, or available again.
Disconnect ==
    /\ connected
    /\ connected' = FALSE
    /\ UNCHANGED <<feature, db, kw, res>>

Reconnect ==
    /\ ~connected
    /\ connected' = TRUE
    /\ UNCHANGED <<feature, db, kw, res>>

-----------------------------------------------------------------------------
(* The inputs.                                                             *)

IsSel == <<"is", "_", "sel">>
JoinKey(a, b, c) == a \o <<MARKER, MARKER>> \o b \o <<MARKER, MARKER>> \o c

Item(key, v) == [key |-> key, v |-> v]

\* The args the statement builders are exercised with: plain keys, keys
\* with one, two and three markers, two joined tables.
SqlItems ==
    {Item(<<"name">>, Str(<<"joe">>)),
     Item(<<"owner">>, I32(12)),
     Item(IsSel, Bool(TRUE)),
     Item(<<"price">>, F64(1000, <<>>)),
     Item(<<"a">> \o <<MARKER, MARKER>> \o <<"b">>, Str(<<"x">>)),
     Item(JoinKey(<<"owner">>, <<"product">>, IsSel), Bool(TRUE)),
     Item(JoinKey(<<"owner">>, <<"tag">>, <<"id">>), I32(3)),
     Item(JoinKey(<<"a">>, <<"b">>, <<"c">>) \o <<MARKER, MARKER, "d">>,
          Bool(FALSE))}

SeqsUpTo(S, n) == UNION {[1..m -> S] : m \in 1..n}

SqlItemSeqs == SeqsUpTo(SqlItems, MaxArgs)

\* Args written as struct literals, whose tag need not be the value's type.
StructKwargs ==
    {[operator |-> "And",
      args |-> <<Arg(<<"owner">>, Json("String", 0, <<"7">>), "i32")>>],
     [operator |-> "Or",
      args |-> <<Arg(<<"name">>, Json("String", 0, <<"joe">>), "&str"),
                 Arg(<<"owner">>, Json("String", 0, <<"abc">>), "i32")>>],
     [operator |-> "And",
      args |-> <<Arg(<<"price">>, Json("Null", 0, <<>>), "f64")>>]}

Ids == {I32(1), I32(2)}

Calls ==
    \E T \in Entities :
        \/ Create(T)
        \/ \E id_value \in Ids : Set(T, id_value)
        \/ Filter(T)
        \/ Get(T)
        \/ All(T)
        \/ Count(T)
        \/ DeleteVec(T)

(* Spec: the statement builders and the binder on every Kwargs of up to    *)
(* MaxArgs args, under each feature, the backend unavailable throughout.   *)
Init ==
    /\ feature \in Features
    /\ connected = FALSE
    /\ db = [name \in TableNames |-> <<>>]
    /\ kw = <<>>
    /\ res = NoResult

Next ==
    \/ MacroCall(SqlItemSeqs)
    \/ StructCall(StructKwargs)
    \/ OrCall
    \/ Calls
    \/ Drop

Spec == Init /\ [][Next]_vars

(* SpecDb: the calls against a live backend, which may fail and recover,   *)
(* on the Kwargs of a caller such as src/src/main.rs: text values with the *)
(* double quote and the backslash, an integer, a non-finite float, a join  *)
(* key, and the struct literals.                                           *)
DbItemSeqs ==
    {<<Item(<<"name">>, Str(<<"joe">>)),
       Item(<<"email">>, Str(<<"j", QUOTE, "x">>)),
       Item(<<"password">>, Str(<<"p", BACKSLASH, "w">>))>>,
     <<Item(<<"name">>, Str(<<"ann">>)), Item(<<"password">>, Str(<<"pw">>))>>,
     <<Item(<<"name">>, Str(<<"tomato">>)), Item(<<"owner">>, I32(1))>>,
     <<Item(<<"email">>, Str(<<"j", QUOTE, "x">>))>>,
     <<Item(<<"price">>, F64(0, <<"NaN">>))>>,
     <<Item(JoinKey(<<"owner">>, <<"product">>, <<"name">>), Str(<<"tomato">>))>>}

InitDb ==
    /\ feature \in Features
    /\ connected = TRUE
    /\ db = [name \in TableNames |-> <<>>]
    /\ kw = <<>>
    /\ res = NoResult

NextDb ==
    \/ MacroCall(DbItemSeqs)
    \/ StructCall(StructKwargs)
    \/ OrCall
    \/ Calls
    \/ Drop
    \/ Disconnect
    \/ Reconnect

SpecDb == InitDb /\ [][NextDb]_vars

-----------------------------------------------------------------------------
(* Reading a statement's text.                                             *)

IsPrefix(p, t) == Len(p) <= Len(t) /\ SubSeq(t, 1, Len(p)) = p

IsSuffix(p, t) == Len(p) <= Len(t) /\ SubSeq(t, Len(t) - Len(p) + 1, Len(t)) = p

Contains(t, sub) ==
    \E i \in 0..(Len(t) - Len(sub)) : SubSeq(t, i + 1, i + Len(sub)) = sub

CountAtom(t, a) == Cardinality({i \in 1..Len(t) : t[i] = a})

RECURSIVE DigitRunEnd(_, _)
DigitRunEnd(t, i) ==
    IF i <= Len(t) /\ IsDigit(t[i]) THEN DigitRunEnd(t, i + 1) ELSE i - 1

\* The numbers written after the placeholder marks of a text, in order
\* (-1 for a mark with no number after it).
PlaceholderIndices(t, mark) ==
    LET pos == SelectSeq([i \in 1..Len(t) |-> i], LAMBDA i : t[i] = mark)
    IN  [k \in 1..Len(pos) |->
            LET e == DigitRunEnd(t, pos[k] + 1)
            IN  IF e > pos[k] THEN DigitsValue(SubSeq(t, pos[k] + 1, e)) ELSE 0 - 1]

OneTo(n) == [k \in 1..n |-> k]

\* The calls that build a statement from a Kwargs.
Built == res.op \in {"create", "set", "filter", "get"}
Selecting == res.op \in {"filter", "get"}
Args == res.kw[1].args
Mark == PLACEHOLDER(feature)

\* The number of "__" in a key, read left to right without overlap.
RECURSIVE MarkerCount(_, _)
MarkerCount(t, i) ==
    IF i >= Len(t) THEN 0
    ELSE IF t[i] = MARKER /\ t[i + 1] = MARKER THEN 1 + MarkerCount(t, i + 2)
    ELSE MarkerCount(t, i + 1)

IsJoinKey(key) == MarkerCount(key, 1) = 2

\* The predicate the spec gives arg k of a filter.
Predicate(k) ==
    LET key == Args[k].key
        ph == <<Mark>> \o IntToText(k)
    IN  IF IsJoinKey(key)
        THEN Split(key)[2] \o <<".">> \o Split(key)[3] \o <<"=">> \o ph
        ELSE key \o <<"=">> \o ph

\* The join clause the spec gives a join key.
JoinOf(key) ==
    <<"INNER JOIN ">> \o Split(key)[2] \o <<" ON ">> \o res.table \o <<".">>
    \o PrimaryKey(res.table) \o <<" = ">> \o Split(key)[2] \o <<".">>
    \o Split(key)[1]

-----------------------------------------------------------------------------
(* C1: every join-key arg a__b__c of a filter has its clause               *)
(* INNER JOIN b ON <table>.<pk> = b.a in the statement and the predicate   *)
(* b.c = <placeholder>; with two join keys naming different tables, both   *)
(* tables are joined.                                                      *)
C1_EveryJoinKeyIsJoined ==
    Selecting =>
        \A k \in 1..Len(Args) :
            IsJoinKey(Args[k].key) =>
                /\ Contains(res.query, JoinOf(Args[k].key))
                /\ Contains(res.query, Predicate(k))

(* C2: an Arg that kwargs! built from a boolean carries the JSON integer   *)
(* 1 or 0 and is bound as that integer, an i32 parameter, in create,       *)
(* filter, get and set.                                                    *)
C2_BooleanBoundAsInteger ==
    (Built /\ res.outcome = "returned") =>
        \A k \in 1..Len(Args) :
            Args[k].type = "bool" =>
                /\ Args[k].value.jt = "Int"
                /\ Args[k].value.n \in {0, 1}
                /\ res.binds[k] = IntCell(Args[k].value.n)

(* C3: under postgres the k-th placeholder of a built statement is $k;     *)
(* under mysql and sqlite every placeholder is a bare ? with no index      *)
(* after it.                                                               *)
C3_PlaceholderFollowsDialect ==
    Built =>
        /\ CountAtom(res.query, Mark) = Len(res.values)
        /\ IF feature = "postgres"
           THEN PlaceholderIndices(res.query, "$") = OneTo(Len(res.values))
           ELSE \A i \in 1..Len(res.query) :
                   res.query[i] = "?" =>
                       ~(i < Len(res.query) /\ IsDigit(res.query[i + 1]))

(* C4: a statement built from N args has as many placeholders as bound    *)
(* values, numbered 1..N in arg order, and the k-th bound value is that of *)
(* the k-th arg; set binds the primary-key value last, to placeholder N+1  *)
(* of its WHERE clause, and joins its SET clauses with commas whatever the *)
(* operator.                                                               *)
C4_PlaceholdersMatchBinds ==
    Built =>
        LET N == Len(Args)
            M == IF res.op = "set" THEN N + 1 ELSE N
            clauses == [k \in 1..N |->
                           Args[k].key \o <<"=", Mark>> \o IntToText(k)]
        IN  /\ PlaceholderIndices(res.query, Mark) = OneTo(M)
            /\ Len(res.values) = M
            /\ \A k \in 1..N :
                  res.values[k] = [t |-> Args[k].type,
                                   v |-> ValueToString(Args[k].value)]
            /\ res.outcome = "returned" =>
                  /\ Len(res.binds) = M
                  /\ \A k \in 1..M :
                        res.binds[k] = BindParam(res.values[k].t,
                                                 res.values[k].v).p
            /\ res.op = "set" =>
                  /\ res.values[M] = [t |-> res.id[1].rt, v |-> Display(res.id[1])]
                  /\ res.query =
                        <<"update ">> \o res.table \o <<" set ">>
                        \o JoinText(clauses, <<", ">>) \o <<" where ">>
                        \o PrimaryKey(res.table) \o <<"=", Mark>>
                        \o IntToText(N + 1) \o <<";">>
                  /\ CountAtom(res.query, ", ") = N - 1
                  /\ CountAtom(res.query, " and ") = 0
                  /\ CountAtom(res.query, " or ") = 0

\* A set of two args joined by Or, which returned.
C4_Witness ==
    /\ res.op = "set"
    /\ res.outcome = "returned"
    /\ Len(Args) = 2
    /\ res.kw[1].operator = "Or"
    /\ Args[1] # Args[2]

(* C5: the WHERE clause of a filter on N >= 1 args is its N predicates in  *)
(* arg order with N-1 connectors between them, " and " under And, which    *)
(* kwargs! produces, and " or " after Kwargs::or(), which changes the      *)
(* operator only.                                                          *)
C5_WhereClause ==
    Selecting =>
        LET N == Len(Args)
            connector == IF res.kw[1].operator = "Or" THEN " or " ELSE " and "
            other == IF res.kw[1].operator = "Or" THEN " and " ELSE " or "
        IN  /\ N >= 1
            /\ IsSuffix(<<" WHERE ">>
                        \o JoinText([k \in 1..N |-> Predicate(k)], <<connector>>)
                        \o <<";">>, res.query)
            /\ CountAtom(res.query, " WHERE ") = 1
            /\ CountAtom(res.query, connector) = N - 1
            /\ CountAtom(res.query, other) = 0

C5_OrChangesOperatorOnly ==
    /\ (kw # <<>> /\ kw' # <<>> /\ kw' # kw) =>
          (kw'[1].operator = "Or" /\ kw'[1].args = kw[1].args)
    /\ (kw = <<>> /\ kw' # <<>> /\ kw'[1] \notin StructKwargs) =>
          kw'[1].operator = "And"

(* C5, whole: the WHERE clause of every filter, and every step that       *)
(* changes or creates the Kwargs the caller holds.                         *)
C5_Connectors == [](C5_WhereClause) /\ [][C5_OrChangesOperatorOnly]_vars

\* A filter of two different args after Kwargs::or().
C5_Witness ==
    /\ res.op = "filter"
    /\ Len(Args) = 2
    /\ Args[1] # Args[2]
    /\ res.kw[1].operator = "Or"
    /\ res.kw[1] \notin StructKwargs

(* C10: a filter key is a join key exactly when it holds two "__" markers; *)
(* any other key (no, one, three or more markers) is a plain column with   *)
(* the predicate <key> = <placeholder> and no join; the statement is       *)
(* SELECT <name>.* FROM <name> <join> WHERE ... exactly when some arg is a *)
(* join key, and SELECT * FROM <name> WHERE ... otherwise.                 *)
C10_KeyClassification ==
    Selecting =>
        LET N == Len(Args)
            joins == {k \in 1..N : IsJoinKey(Args[k].key)}
        IN  /\ \A k \in 1..N :
                  IF k \in joins
                  THEN /\ Len(Split(Args[k].key)) = 3
                       /\ Contains(res.query, Predicate(k))
                  ELSE /\ Contains(res.query,
                                   Args[k].key \o <<"=", Mark>> \o IntToText(k))
                       /\ ~Contains(res.query,
                                    <<".">> \o Split(Args[k].key)[Len(Split(Args[k].key))]
                                    \o <<"=", Mark>> \o IntToText(k))
            /\ joins = {} => CountAtom(res.query, "INNER JOIN ") = 0
            /\ CountAtom(res.query, "INNER JOIN ") <= Cardinality(joins)
            /\ IsPrefix(<<"SELECT ">> \o res.table \o <<".* FROM ">> \o res.table
                        \o <<" ", "INNER JOIN ">>, res.query) <=> joins # {}
            /\ IsPrefix(<<"SELECT * FROM ">> \o res.table \o <<" WHERE ">>,
                        res.query) <=> joins = {}

\* A filter of a join key and a key with three markers.
C10_Witness ==
    /\ res.op = "filter"
    /\ \E k \in 1..Len(Args) : MarkerCount(Args[k].key, 1) = 2
    /\ \E k \in 1..Len(Args) : MarkerCount(Args[k].key, 1) = 3

-----------------------------------------------------------------------------
EntityOf(name) == CHOOSE T \in Entities : T.NAME = name

\* Some arg tagged i32 or f64 carries a text that does not parse as that.
Unparseable ==
    \E k \in 1..Len(Args) :
        /\ Args[k].type \in {"i32", "f64"}
        /\ ~BindParam(Args[k].type, ValueToString(Args[k].value)).ok

(* C6: create and set return false on a binder or execution failure: with  *)
(* an arg tagged i32 or f64 whose value does not parse as that type, the   *)
(* call returns false, without panicking and without executing a           *)
(* statement.                                                              *)
C6_BindFailureReturnsFalse ==
    res.op \in {"create", "set"} =>
        /\ res.err => (res.outcome = "returned" /\ res.ret = FALSE)
        /\ Unparseable =>
              (res.outcome = "returned" /\ res.ret = FALSE /\ ~res.sent)

(* C7: when the backend fails the statement, all and filter return an      *)
(* empty Vec, get returns None and count returns 0; and get returns        *)
(* Some(first element of filter's Vec) exactly when that Vec is not empty. *)
C7_ReadsSwallowBackendFailure ==
    /\ (res.op \in {"all", "filter", "get"} /\ res.sent /\ res.err) =>
          (res.outcome = "returned" /\ res.rows = <<>> /\ res.opt = <<>>)
    /\ (res.op = "count" /\ res.sent /\ res.err) =>
          (res.outcome = "returned" /\ res.n = 0)
    /\ (res.op = "get" /\ res.outcome = "returned") =>
          /\ res.opt # <<>> <=> res.rows # <<>>
          /\ res.rows # <<>> => res.opt = <<res.rows[1]>>

\* A get that the unavailable backend failed, on a table that holds a row.
C7_Witness ==
    /\ res.op = "get"
    /\ res.sent /\ res.err
    /\ ~connected
    /\ db[res.table] # <<>>

(* C8: a successful delete() on a Vec<T> empties T's table, whatever the   *)
(* collection holds, so that all() is then empty and count() 0, and leaves *)
(* the rows of every other entity type as they were.                       *)
C8_DeleteStep ==
    (res'.op = "delete" /\ res'.ret) =>
        /\ db'[res'.table] = <<>>
        /\ \A name \in TableNames \ {res'.table} : db'[name] = db[name]
        /\ AllResult(TRUE, db', EntityOf(res'.table)).rows = <<>>
        /\ CountResult(TRUE, db', EntityOf(res'.table)).n = 0

(* C8, whole: every step that leaves a successful delete as the last     *)
(* call.                                                                   *)
C8_DeleteIsTableWide == [][C8_DeleteStep]_vars

\* A successful delete on a collection of one product, the user table
\* holding a row.
C8_Witness ==
    /\ res.op = "delete"
    /\ res.ret
    /\ res.table = Product.NAME
    /\ res.n = 1
    /\ db[User.NAME] # <<>>

\* The cell that holds the value a caller supplied in an arg.
Supplied(arg) ==
    IF arg.value.jt = "String" THEN TextCell(arg.value.s) ELSE IntCell(arg.value.n)

(* C9: after a successful create(K) of text and integer args on an empty   *)
(* table, get on a unique column of K returns an entity whose field is,    *)
(* for every arg of K, the value K supplied.                               *)
C9_RoundTrip ==
    (/\ res.op = "create"
     /\ res.ret
     /\ Len(db[res.table]) = 1
     /\ \A k \in 1..Len(Args) : Args[k].value.jt \in {"String", "Int"}) =>
        \A u \in 1..Len(Args) :
            Args[u].key \in UniqueColumns(res.table) =>
                LET got == GetResult(feature, TRUE, db, EntityOf(res.table),
                                     [operator |-> "And", args |-> <<Args[u]>>])
                IN  /\ got.outcome = "returned"
                    /\ got.opt # <<>>
                    /\ \A k \in 1..Len(Args) :
                          got.opt[1][Args[k].key] = Supplied(Args[k])

====
